---- MODULE Spec2Model ----
(***************************************************************************)
(* A model of the JIRA ticket generator (src/src/jira_tickets.py): the     *)
(* JiraTicketGenerator client (create_epic, create_story, create_subtask)  *)
(* and the plan driver generate_project_tickets.                           *)
(*                                                                         *)
(* Python values are tagged tuples, so that one value can be told from     *)
(* another of a different type: None is <<"NoneType">>, a str is           *)
(* <<"str", s>>, a list is <<"list", seq>>, a dict is <<"dict", f>>.       *)
(* JSON documents are tagged tuples of their own (<<"null">>,              *)
(* <<"string", s>>, <<"array", seq>>, <<"object", f>>); a body that is not *)
(* JSON is <<"text", s>>.  Credential strings are sequences of code        *)
(* points, byte strings are sequences of 0..255.                           *)
(***************************************************************************)
EXTENDS Integers, Sequences, FiniteSets, TLC

VARIABLES
    jira,        \* the JiraTicketGenerator instance: jira_url, project_key, auth_header
    cred,        \* the (email, api_token) pair the instance was constructed from
    pc,          \* generate_project_tickets: index of the plan statement to run next (0: not running)
    epic_keys,   \* generate_project_tickets: the dict epic_keys
    story_keys,  \* generate_project_tickets: the locals story1_1_key, story1_2_key, ...
    inflight,    \* the set of HTTP requests sent and not yet answered
    call,        \* the operation blocked in requests.post, with its arguments (NoCall if none)
    last,        \* the most recently completed operation: response, return value, exception, printed line
    posts,       \* number of requests sent for each plan statement
    answered,    \* number of responses (or transport errors) received for each plan statement
    result       \* what generate_project_tickets returned (or the exception that ended it)

vars == <<jira, cred, pc, epic_keys, story_keys, inflight, call, last, posts, answered, result>>

(***************************************************************************)
(* Python values                                                           *)
(***************************************************************************)
None == <<"NoneType">>

PyStr(s) == <<"str", s>>

PyList(seq) == <<"list", seq>>

PyDict(f) == <<"dict", f>>

IsNone(v) == v[1] = "NoneType"

IsStr(v) == v[1] = "str"

\* Python truthiness, as used by `if components:` and `if labels:`
Truthy(v) ==
    CASE v[1] = "NoneType" -> FALSE
      [] v[1] = "str" -> v[2] # ""
      [] v[1] = "list" -> Len(v[2]) > 0
      [] v[1] = "dict" -> DOMAIN v[2] # {}

(***************************************************************************)
(* json.dumps / response.json()                                            *)
(***************************************************************************)
JNull == <<"null">>

JString(s) == <<"string", s>>

RECURSIVE json_dumps(_)
json_dumps(v) ==
    CASE v[1] = "NoneType" -> JNull
      [] v[1] = "str" -> JString(v[2])
      [] v[1] = "list" -> <<"array", [i \in DOMAIN v[2] |-> json_dumps(v[2][i])]>>
      [] v[1] = "dict" -> <<"object", [k \in DOMAIN v[2] |-> json_dumps(v[2][k])]>>

IsJson(doc) == doc[1] \in {"null", "string", "array", "object"}

RECURSIVE json_loads(_)
json_loads(doc) ==
    CASE doc[1] = "null" -> None
      [] doc[1] = "string" -> PyStr(doc[2])
      [] doc[1] = "array" -> PyList([i \in DOMAIN doc[2] |-> json_loads(doc[2][i])])
      [] doc[1] = "object" -> PyDict([k \in DOMAIN doc[2] |-> json_loads(doc[2][k])])

(***************************************************************************)
(* str.encode("utf-8"), base64.b64encode, bytes.decode("utf-8")            *)
(***************************************************************************)
Utf8Char(c) ==
    IF c < 128 THEN <<c>>
    ELSE IF c < 2048 THEN <<192 + (c \div 64), 128 + (c % 64)>>
    ELSE IF c < 65536 THEN <<224 + (c \div 4096), 128 + ((c \div 64) % 64), 128 + (c % 64)>>
    ELSE <<240 + (c \div 262144), 128 + ((c \div 4096) % 64),
           128 + ((c \div 64) % 64), 128 + (c % 64)>>

RECURSIVE utf8_encode(_)
utf8_encode(s) ==
    IF s = <<>> THEN <<>> ELSE Utf8Char(Head(s)) \o utf8_encode(Tail(s))

RECURSIVE utf8_decode(_)
utf8_decode(b) ==
    IF b = <<>> THEN <<>>
    ELSE IF b[1] < 128 THEN <<b[1]>> \o utf8_decode(SubSeq(b, 2, Len(b)))
    ELSE IF b[1] < 224 THEN
        <<(b[1] - 192) * 64 + (b[2] - 128)>> \o utf8_decode(SubSeq(b, 3, Len(b)))
    ELSE IF b[1] < 240 THEN
        <<(b[1] - 224) * 4096 + (b[2] - 128) * 64 + (b[3] - 128)>>
            \o utf8_decode(SubSeq(b, 4, Len(b)))
    ELSE
        <<(b[1] - 240) * 262144 + (b[2] - 128) * 4096 + (b[3] - 128) * 64 + (b[4] - 128)>>
            \o utf8_decode(SubSeq(b, 5, Len(b)))

\* the base64 alphabet A-Z a-z 0-9 + /, as ASCII codes; '=' pads
B64Char(i) ==
    IF i < 26 THEN 65 + i
    ELSE IF i < 52 THEN 97 + (i - 26)
    ELSE IF i < 62 THEN 48 + (i - 52)
    ELSE IF i = 62 THEN 43
    ELSE 47

B64Pad == 61

RECURSIVE b64encode(_)
b64encode(b) ==
    IF Len(b) = 0 THEN <<>>
    ELSE IF Len(b) = 1 THEN
        <<B64Char(b[1] \div 4), B64Char((b[1] % 4) * 16), B64Pad, B64Pad>>
    ELSE IF Len(b) = 2 THEN
        <<B64Char(b[1] \div 4), B64Char((b[1] % 4) * 16 + (b[2] \div 16)),
          B64Char((b[2] % 16) * 4), B64Pad>>
    ELSE
        <<B64Char(b[1] \div 4), B64Char((b[1] % 4) * 16 + (b[2] \div 16)),
          B64Char((b[2] % 16) * 4 + (b[3] \div 64)), B64Char(b[3] % 64)>>
            \o b64encode(SubSeq(b, 4, Len(b)))

\* the inverse of B64Char, and base64.b64decode (used to read a header back)
B64Index(ch) ==
    IF ch >= 65 /\ ch <= 90 THEN ch - 65
    ELSE IF ch >= 97 /\ ch <= 122 THEN ch - 97 + 26
    ELSE IF ch >= 48 /\ ch <= 57 THEN ch - 48 + 52
    ELSE IF ch = 43 THEN 62
    ELSE 63

RECURSIVE b64decode(_)
b64decode(t) ==
    IF Len(t) = 0 THEN <<>>
    ELSE LET i1 == B64Index(t[1])
             i2 == B64Index(t[2])
             i3 == B64Index(t[3])
             i4 == B64Index(t[4])
             rest == b64decode(SubSeq(t, 5, Len(t)))
         IN  IF t[3] = B64Pad THEN <<i1 * 4 + (i2 \div 16)>>
             ELSE IF t[4] = B64Pad THEN
                 <<i1 * 4 + (i2 \div 16), (i2 % 16) * 16 + (i3 \div 4)>>
             ELSE <<i1 * 4 + (i2 \div 16), (i2 % 16) * 16 + (i3 \div 4),
                    (i3 % 4) * 64 + i4>> \o rest

Colon == <<58>>

BasicPrefix == <<66, 97, 115, 105, 99, 32>>   \* "Basic "

\* a variant that joins the two credentials without the ":" between them
create_auth_header_no_colon(email, api_token) ==
    LET auth_str == email \o api_token
        auth_bytes == utf8_encode(auth_str)
        auth_b64 == utf8_decode(b64encode(auth_bytes))
    IN  [Authorization |-> BasicPrefix \o auth_b64]

\* JiraTicketGenerator._create_auth_header
create_auth_header(email, api_token) ==
    LET auth_str == email \o Colon \o api_token
        auth_bytes == utf8_encode(auth_str)
        auth_b64 == utf8_decode(b64encode(auth_bytes))
    IN  [Authorization |-> BasicPrefix \o auth_b64]

\* JiraTicketGenerator.__init__
JiraTicketGenerator(jira_url, email, api_token, project_key) ==
    [jira_url |-> jira_url,
     project_key |-> project_key,
     auth_header |-> create_auth_header(email, api_token)]

(***************************************************************************)
(* HTTP: a request is what requests.post is given; an outcome is what it   *)
(* gives back, a response (status_code, text) or a raised exception.       *)
(***************************************************************************)
NoExc == "none"

Response(status_code, text) == [exc |-> NoExc, status_code |-> status_code, text |-> text]

Raises(exc) == [exc |-> exc, status_code |-> 0, text |-> <<"text", "">>]

\* the f-string f"{self.jira_url}/rest/api/2/issue/"
issue_url(self) == <<self.jira_url, "/rest/api/2/issue/">>

\* the headers dict every operation builds
headers(self) ==
    self.auth_header
        @@ ("Accept" :> "application/json")
        @@ ("Content-Type" :> "application/json")

\* requests.post(url, headers=headers, data=json.dumps(payload)); node tags the
\* plan statement that sends it (0 for a call from outside the plan)
requests_post(node, url, hdrs, payload) ==
    [node |-> node, method |-> "POST", url |-> url, headers |-> hdrs,
     data |-> json_dumps(payload)]

\* what an operation leaves behind: its return value, the exception it raised,
\* the line it printed
NoReturn == <<"noreturn">>

NoLine == <<>>

\* print(f"Failed to create ...: {response.text}"): the parts of the line, each
\* tagged with the expression it comes from
failure_line(prefix, outcome) == <<<<"literal", prefix>>, <<"response.text", outcome.text>>>>

Returned(op, outcome, ret, printed) ==
    [op |-> op, outcome |-> outcome, ret |-> ret, raised |-> NoExc, printed |-> printed]

Raised(op, outcome, exc) ==
    [op |-> op, outcome |-> outcome, ret |-> NoReturn, raised |-> exc, printed |-> NoLine]

\* a variant that reads the issue's numeric "id" where the code reads its "key"
json_key_reads_id(op, outcome) ==
    IF ~IsJson(outcome.text) THEN Raised(op, outcome, "JSONDecodeError")
    ELSE IF outcome.text[1] # "object" THEN Raised(op, outcome, "TypeError")
    ELSE IF "id" \notin DOMAIN outcome.text[2] THEN Raised(op, outcome, "KeyError")
    ELSE Returned(op, outcome, json_loads(outcome.text)[2]["id"], NoLine)

\* response.json()["key"]: the body must parse, be an object and have the key
json_key(op, outcome) ==
    IF ~IsJson(outcome.text) THEN Raised(op, outcome, "JSONDecodeError")
    ELSE IF outcome.text[1] # "object" THEN Raised(op, outcome, "TypeError")
    ELSE IF "key" \notin DOMAIN outcome.text[2] THEN Raised(op, outcome, "KeyError")
    ELSE Returned(op, outcome, json_loads(outcome.text)[2]["key"], NoLine)

(***************************************************************************)
(* JiraTicketGenerator.create_epic                                         *)
(***************************************************************************)
create_epic_payload(self, epic_name, epic_summary, epic_description) ==
    PyDict([fields |-> PyDict(
        ("project" :> PyDict([key |-> self.project_key]))
        @@ ("summary" :> epic_summary)
        @@ ("description" :> epic_description)
        @@ ("issuetype" :> PyDict([name |-> PyStr("Epic")]))
        @@ ("customfield_10011" :> epic_name))])

create_epic_request(self, node, epic_name, epic_summary, epic_description) ==
    requests_post(node, issue_url(self), headers(self),
                  create_epic_payload(self, epic_name, epic_summary, epic_description))

create_epic_result(outcome) ==
    IF outcome.exc # NoExc THEN Raised("create_epic", outcome, outcome.exc)
    ELSE IF outcome.status_code = 201 THEN json_key("create_epic", outcome)
    ELSE Returned("create_epic", outcome, None,
                  failure_line("Failed to create epic: ", outcome))

(***************************************************************************)
(* JiraTicketGenerator.create_story                                        *)
(***************************************************************************)
\* a variant that builds the component objects in reverse order
components_field_reversed(components) ==
    IF Truthy(components)
    THEN PyList([i \in DOMAIN components[2] |->
                    PyDict([name |-> components[2][Len(components[2]) + 1 - i]])])
    ELSE None

components_field(components) ==
    IF Truthy(components)
    THEN PyList([i \in DOMAIN components[2] |-> PyDict([name |-> components[2][i]])])
    ELSE None

\* a variant that puts the epic key under the Epic Name field id (customfield_10011)
\* where the code uses the Epic Link field id (customfield_10014)
create_story_payload_epic_name_field(self, epic_key, story_summary, story_description, components, labels) ==
    LET base == ("project" :> PyDict([key |-> self.project_key]))
                @@ ("summary" :> story_summary)
                @@ ("description" :> story_description)
                @@ ("issuetype" :> PyDict([name |-> PyStr("Story")]))
                @@ ("customfield_10011" :> epic_key)
        with_components ==
            IF Truthy(components_field(components))
            THEN ("components" :> components_field(components)) @@ base
            ELSE base
        with_labels ==
            IF Truthy(labels) THEN ("labels" :> labels) @@ with_components
            ELSE with_components
    IN  PyDict([fields |-> PyDict(with_labels)])

create_story_payload(self, epic_key, story_summary, story_description, components, labels) ==
    LET base == ("project" :> PyDict([key |-> self.project_key]))
                @@ ("summary" :> story_summary)
                @@ ("description" :> story_description)
                @@ ("issuetype" :> PyDict([name |-> PyStr("Story")]))
                @@ ("customfield_10014" :> epic_key)
        with_components ==
            IF Truthy(components_field(components))
            THEN ("components" :> components_field(components)) @@ base
            ELSE base
        with_labels ==
            IF Truthy(labels) THEN ("labels" :> labels) @@ with_components
            ELSE with_components
    IN  PyDict([fields |-> PyDict(with_labels)])

create_story_request(self, node, epic_key, story_summary, story_description, components, labels) ==
    requests_post(node, issue_url(self), headers(self),
                  create_story_payload(self, epic_key, story_summary, story_description,
                                       components, labels))

\* a variant that takes any 2xx status for success
create_story_result_any_2xx(outcome) ==
    IF outcome.exc # NoExc THEN Raised("create_story", outcome, outcome.exc)
    ELSE IF outcome.status_code >= 200 /\ outcome.status_code < 300
         THEN json_key("create_story", outcome)
    ELSE Returned("create_story", outcome, None,
                  failure_line("Failed to create story: ", outcome))

create_story_result(outcome) ==
    IF outcome.exc # NoExc THEN Raised("create_story", outcome, outcome.exc)
    ELSE IF outcome.status_code = 201 THEN json_key("create_story", outcome)
    ELSE Returned("create_story", outcome, None,
                  failure_line("Failed to create story: ", outcome))

(***************************************************************************)
(* JiraTicketGenerator.create_subtask                                      *)
(***************************************************************************)
create_subtask_payload(self, parent_key, subtask_summary, subtask_description) ==
    PyDict([fields |-> PyDict(
        ("project" :> PyDict([key |-> self.project_key]))
        @@ ("summary" :> subtask_summary)
        @@ ("description" :> subtask_description)
        @@ ("issuetype" :> PyDict([name |-> PyStr("Sub-task")]))
        @@ ("parent" :> PyDict([key |-> parent_key])))])

create_subtask_request(self, node, parent_key, subtask_summary, subtask_description) ==
    requests_post(node, issue_url(self), headers(self),
                  create_subtask_payload(self, parent_key, subtask_summary, subtask_description))

create_subtask_result(outcome) ==
    IF outcome.exc # NoExc THEN Raised("create_subtask", outcome, outcome.exc)
    ELSE IF outcome.status_code = 201 THEN json_key("create_subtask", outcome)
    ELSE Returned("create_subtask", outcome, None,
                  failure_line("Failed to create subtask: ", outcome))

\* the second half of whichever operation is blocked in requests.post
create_result(op, outcome) ==
    CASE op = "create_epic" -> create_epic_result(outcome)
      [] op = "create_story" -> create_story_result(outcome)
      [] op = "create_subtask" -> create_subtask_result(outcome)

(***************************************************************************)
(* generate_project_tickets: the hardcoded credentials and the plan, one   *)
(* record per create call in program order.  var is the variable the       *)
(* returned key is stored in ("" when the return value is dropped), parent *)
(* the variable the parent argument is read from ("" for an epic).  The    *)
(* long description literals are named by their variables.                 *)
(***************************************************************************)
HardJiraUrl == PyStr("https://your-domain.atlassian.net")

\* "your-email@example.com"
HardEmail ==
    <<121, 111, 117, 114, 45, 101, 109, 97, 105, 108, 64, 101, 120, 97, 109, 112, 108,
      101, 46, 99, 111, 109>>

\* "your-api-token"
HardApiToken == <<121, 111, 117, 114, 45, 97, 112, 105, 45, 116, 111, 107, 101, 110>>

HardProjectKey == PyStr("APA")

PlanTable == <<
    [op |-> "create_epic", var |-> "epic1", parent |-> "",
     summary |-> "Epic 1: Core Infrastructure Setup", name |-> "Core Infrastructure Setup",
     description |-> "epic1_desc",
     components |-> None, labels |-> None],
    [op |-> "create_story", var |-> "story1_1", parent |-> "epic1",
     summary |-> "Story 1.1: Supabase Configuration", name |-> "",
     description |-> "story1_1_desc",
     components |-> PyList(<<PyStr("Database")>>), labels |-> PyList(<<PyStr("week-1")>>)],
    [op |-> "create_subtask", var |-> "", parent |-> "story1_1",
     summary |-> "Create Supabase account and project", name |-> "",
     description |-> "Sign up for Supabase and create a new project for the AI Personal Assistant.",
     components |-> None, labels |-> None],
    [op |-> "create_subtask", var |-> "", parent |-> "story1_1",
     summary |-> "Enable pgvector extension", name |-> "",
     description |-> "Run SQL command to enable the pgvector extension in the Supabase database.",
     components |-> None, labels |-> None],
    [op |-> "create_subtask", var |-> "", parent |-> "story1_1",
     summary |-> "Implement database schema", name |-> "",
     description |-> "Create database tables according to the schema defined in the project plan.",
     components |-> None, labels |-> None],
    [op |-> "create_subtask", var |-> "", parent |-> "story1_1",
     summary |-> "Configure row-level security", name |-> "",
     description |-> "Set up row-level security policies to ensure proper data access control.",
     components |-> None, labels |-> None],
    [op |-> "create_subtask", var |-> "", parent |-> "story1_1",
     summary |-> "Set up authentication system", name |-> "",
     description |-> "Configure email authentication provider and test user signup/login flow.",
     components |-> None, labels |-> None],
    [op |-> "create_story", var |-> "story1_2", parent |-> "epic1",
     summary |-> "Story 1.2: FastAPI Backend", name |-> "",
     description |-> "story1_2_desc",
     components |-> PyList(<<PyStr("Backend")>>), labels |-> PyList(<<PyStr("week-2")>>)],
    [op |-> "create_subtask", var |-> "", parent |-> "story1_2",
     summary |-> "Set up FastAPI project structure", name |-> "",
     description |-> "Create the directory structure and initial files for the FastAPI application.",
     components |-> None, labels |-> None],
    [op |-> "create_subtask", var |-> "", parent |-> "story1_2",
     summary |-> "Configure Supabase client connection", name |-> "",
     description |-> "Set up the Supabase client in the FastAPI application with proper environment variables.",
     components |-> None, labels |-> None],
    [op |-> "create_subtask", var |-> "", parent |-> "story1_2",
     summary |-> "Implement authentication middleware", name |-> "",
     description |-> "Create middleware to verify JWT tokens from Supabase auth.",
     components |-> None, labels |-> None],
    [op |-> "create_subtask", var |-> "", parent |-> "story1_2",
     summary |-> "Create basic API endpoints", name |-> "",
     description |-> "Implement health check and initial API endpoints.",
     components |-> None, labels |-> None],
    [op |-> "create_story", var |-> "story1_3", parent |-> "epic1",
     summary |-> "Story 1.3: Streamlit Prototype", name |-> "",
     description |-> "story1_3_desc",
     components |-> PyList(<<PyStr("Frontend")>>), labels |-> PyList(<<PyStr("week-3")>>)],
    [op |-> "create_subtask", var |-> "", parent |-> "story1_3",
     summary |-> "Initialize Streamlit project", name |-> "",
     description |-> "Create the basic Streamlit application structure.",
     components |-> None, labels |-> None],
    [op |-> "create_subtask", var |-> "", parent |-> "story1_3",
     summary |-> "Create authentication flow", name |-> "",
     description |-> "Implement login, logout, and session management in Streamlit.",
     components |-> None, labels |-> None],
    [op |-> "create_subtask", var |-> "", parent |-> "story1_3",
     summary |-> "Build basic UI components", name |-> "",
     description |-> "Create the main UI components for the application.",
     components |-> None, labels |-> None],
    [op |-> "create_subtask", var |-> "", parent |-> "story1_3",
     summary |-> "Connect to FastAPI endpoints", name |-> "",
     description |-> "Integrate the Streamlit frontend with the FastAPI backend.",
     components |-> None, labels |-> None],
    [op |-> "create_epic", var |-> "epic2", parent |-> "",
     summary |-> "Epic 2: Calendar & Email Integration", name |-> "Calendar & Email Integration",
     description |-> "epic2_desc",
     components |-> None, labels |-> None],
    [op |-> "create_story", var |-> "story2_1", parent |-> "epic2",
     summary |-> "Story 2.1: Google Calendar Integration", name |-> "",
     description |-> "story2_1_desc",
     components |-> PyList(<<PyStr("API Integration")>>), labels |-> PyList(<<PyStr("week-4")>>)],
    [op |-> "create_epic", var |-> "epic3", parent |-> "",
     summary |-> "Epic 3: LLM & Agent Integration", name |-> "LLM & Agent Integration",
     description |-> "epic3_desc",
     components |-> None, labels |-> None],
    [op |-> "create_story", var |-> "story3_1", parent |-> "epic3",
     summary |-> "Story 3.1: LangChain Setup", name |-> "",
     description |-> "story3_1_desc",
     components |-> PyList(<<PyStr("AI Integration")>>), labels |-> PyList(<<PyStr("week-3")>>)],
    [op |-> "create_epic", var |-> "epic4", parent |-> "",
     summary |-> "Epic 4: Job Application Support", name |-> "Job Application Support",
     description |-> "epic4_desc",
     components |-> None, labels |-> None],
    [op |-> "create_epic", var |-> "epic5", parent |-> "",
     summary |-> "Epic 5: London Activity Planning", name |-> "London Activity Planning",
     description |-> "epic5_desc",
     components |-> None, labels |-> None],
    [op |-> "create_epic", var |-> "epic6", parent |-> "",
     summary |-> "Epic 6: Production Interface", name |-> "Production Interface",
     description |-> "epic6_desc",
     components |-> None, labels |-> None],
    [op |-> "create_epic", var |-> "epic7", parent |-> "",
     summary |-> "Epic 7: Deployment & Productization", name |-> "Deployment & Productization",
     description |-> "epic7_desc",
     components |-> None, labels |-> None]
>>

Plan == PlanTable

Nodes == 1..Len(Plan)

ReturnStmt == Len(Plan) + 1

Terminated == Len(Plan) + 2

SuccessMessage == "Successfully generated project tickets!"

Running == <<"running">>

\* a variant in which a subtask is given the key of epic 1 where the code gives
\* it the key of its story
parent_argument_epic_for_subtask(n, ek, sk) ==
    IF Plan[n].op = "create_story" THEN ek[Plan[n].parent] ELSE ek["epic1"]

\* the argument a story or subtask call passes as its parent: epic_keys[...] for
\* a story, the story's local for a subtask
parent_argument(n, ek, sk) ==
    IF Plan[n].op = "create_story" THEN ek[Plan[n].parent] ELSE sk[Plan[n].parent]

\* a variant that repeats a statement whose call returned None
driver_next_retry(n, r) ==
    IF r.raised # NoExc THEN Terminated
    ELSE IF IsNone(r.ret) THEN n
    ELSE n + 1

\* a variant that leaves the function when a call returned None
driver_next_stop_on_none(n, r) ==
    IF r.raised # NoExc \/ IsNone(r.ret) THEN Terminated ELSE n + 1

\* where the driver goes after a call: on to the next statement, or out of the
\* function when the call raised (nothing catches)
driver_next(n, r) == IF r.raised # NoExc THEN Terminated ELSE n + 1

\* epic_keys["epicN"] = jira.create_epic(...)
store_epic_key(n, r, ek) ==
    IF r.raised = NoExc /\ Plan[n].op = "create_epic"
    THEN (Plan[n].var :> r.ret) @@ ek
    ELSE ek

\* storyN_M_key = jira.create_story(...); a subtask's return value is dropped
store_story_key(n, r, sk) ==
    IF r.raised = NoExc /\ Plan[n].op = "create_story"
    THEN (Plan[n].var :> r.ret) @@ sk
    ELSE sk

(***************************************************************************)
(* The tracker.  In a run of the plan it answers the request of statement  *)
(* n with the key TrackerKey(n), with an error status, with a 201 whose    *)
(* body has no key, or the transport fails.                                *)
(***************************************************************************)
KeyTable ==
    <<"APA-1", "APA-2", "APA-3", "APA-4", "APA-5", "APA-6", "APA-7", "APA-8", "APA-9",
      "APA-10", "APA-11", "APA-12", "APA-13", "APA-14", "APA-15", "APA-16", "APA-17",
      "APA-18", "APA-19", "APA-20", "APA-21", "APA-22", "APA-23", "APA-24", "APA-25">>

TrackerKey(n) == KeyTable[n]

KeyBody(k) == <<"object", [id |-> JString("10000"), key |-> JString(k)]>>

EmptyBody == <<"object", [id |-> JString("10000")]>>

ErrorBody == <<"object", [errorMessages |-> <<"array", <<JString("Field 'customfield_10011' cannot be set.")>>>>]>>

TextBody == <<"text", "Unauthorized">>

ErrorStatuses == {400, 401, 403, 404}

TransportErrors == {"ConnectionError", "Timeout"}

TrackerOutcomes(n) ==
    {Response(201, KeyBody(TrackerKey(n))), Response(201, EmptyBody)}
        \cup {Response(st, ErrorBody) : st \in ErrorStatuses}
        \cup {Raises(e) : e \in TransportErrors}

(***************************************************************************)
(* The two halves of an operation: up to requests.post, and from the       *)
(* response on.                                                            *)
(***************************************************************************)
NoCall == [op |-> "none", node |-> 0]

NoLast == [op |-> "none", outcome |-> Raises(NoExc), ret |-> NoReturn, raised |-> NoExc,
           printed |-> NoLine]

Begin(c, req) ==
    /\ call.op = "none"
    /\ call' = c
    /\ inflight' = inflight \cup {req}

Complete(outcome) ==
    /\ call.op # "none"
    /\ last' = create_result(call.op, outcome)
    /\ call' = NoCall
    /\ inflight' = {r \in inflight : r.node # call.node}

(***************************************************************************)
(* generate_project_tickets                                                *)
(***************************************************************************)
Init ==
    /\ cred = [email |-> HardEmail, api_token |-> HardApiToken]
    /\ jira = JiraTicketGenerator(HardJiraUrl, HardEmail, HardApiToken, HardProjectKey)
    /\ pc = 1
    /\ epic_keys = <<>>
    /\ story_keys = <<>>
    /\ inflight = {}
    /\ call = NoCall
    /\ last = NoLast
    /\ posts = [n \in Nodes |-> 0]
    /\ answered = [n \in Nodes |-> 0]
    /\ result = Running

DriverCreateEpic ==
    /\ pc \in Nodes
    /\ Plan[pc].op = "create_epic"
    /\ Begin([op |-> "create_epic", node |-> pc,
              epic_name |-> PyStr(Plan[pc].name),
              epic_summary |-> PyStr(Plan[pc].summary),
              epic_description |-> PyStr(Plan[pc].description)],
             create_epic_request(jira, pc, PyStr(Plan[pc].name), PyStr(Plan[pc].summary),
                                 PyStr(Plan[pc].description)))
    /\ posts' = [posts EXCEPT ![pc] = @ + 1]
    /\ UNCHANGED <<jira, cred, pc, epic_keys, story_keys, last, answered, result>>

DriverCreateStory ==
    /\ pc \in Nodes
    /\ Plan[pc].op = "create_story"
    /\ LET epic_key == parent_argument(pc, epic_keys, story_keys)
       IN  Begin([op |-> "create_story", node |-> pc,
                  epic_key |-> epic_key,
                  story_summary |-> PyStr(Plan[pc].summary),
                  story_description |-> PyStr(Plan[pc].description),
                  components |-> Plan[pc].components,
                  labels |-> Plan[pc].labels],
                 create_story_request(jira, pc, epic_key, PyStr(Plan[pc].summary),
                                      PyStr(Plan[pc].description), Plan[pc].components,
                                      Plan[pc].labels))
    /\ posts' = [posts EXCEPT ![pc] = @ + 1]
    /\ UNCHANGED <<jira, cred, pc, epic_keys, story_keys, last, answered, result>>

DriverCreateSubtask ==
    /\ pc \in Nodes
    /\ Plan[pc].op = "create_subtask"
    /\ LET parent_key == parent_argument(pc, epic_keys, story_keys)
       IN  Begin([op |-> "create_subtask", node |-> pc,
                  parent_key |-> parent_key,
                  subtask_summary |-> PyStr(Plan[pc].summary),
                  subtask_description |-> PyStr(Plan[pc].description)],
                 create_subtask_request(jira, pc, parent_key, PyStr(Plan[pc].summary),
                                        PyStr(Plan[pc].description)))
    /\ posts' = [posts EXCEPT ![pc] = @ + 1]
    /\ UNCHANGED <<jira, cred, pc, epic_keys, story_keys, last, answered, result>>

\* the response arrives: the blocked operation returns or raises, the driver
\* stores the key and moves on, or the exception ends the function
DriverCallReturns ==
    /\ pc \in Nodes
    /\ call.op # "none"
    /\ \E outcome \in TrackerOutcomes(call.node) :
        LET r == create_result(call.op, outcome)
        IN  /\ Complete(outcome)
            /\ answered' = [answered EXCEPT ![call.node] = @ + 1]
            /\ epic_keys' = store_epic_key(pc, r, epic_keys)
            /\ story_keys' = store_story_key(pc, r, story_keys)
            /\ pc' = driver_next(pc, r)
            /\ result' = IF r.raised # NoExc THEN <<"raised", r.raised>> ELSE result
    /\ UNCHANGED <<jira, cred, posts>>

\* return "Successfully generated project tickets!"
DriverFinish ==
    /\ pc = ReturnStmt
    /\ pc' = Terminated
    /\ result' = <<"returned", SuccessMessage>>
    /\ UNCHANGED <<jira, cred, epic_keys, story_keys, inflight, call, last, posts, answered>>

Next ==
    \/ DriverCreateEpic
    \/ DriverCreateStory
    \/ DriverCreateSubtask
    \/ DriverCallReturns
    \/ DriverFinish

Spec == Init /\ [][Next]_vars

(***************************************************************************)
(* The client on its own: a caller constructs it with any credential pair  *)
(* and invokes the three operations in any order with any arguments; the   *)
(* tracker answers with any status and body, or the transport fails.       *)
(***************************************************************************)
MaxCredLen == 1

\* "a" and e-acute (2 bytes in UTF-8) for the email, "a" and the euro sign
\* (3 bytes) for the token
EmailChars == {97, 233}

TokenChars == {97, 8364}

Emails == UNION {[1..n -> EmailChars] : n \in 0..MaxCredLen}

ApiTokens == UNION {[1..n -> TokenChars] : n \in 0..MaxCredLen}

ClientKeys == {None, PyStr("APA-1"), PyStr("APA-2")}

ClientComponents ==
    {None, PyList(<<>>), PyList(<<PyStr("Database")>>),
     PyList(<<PyStr("Database"), PyStr("Backend")>>)}

ClientLabels ==
    {None, PyList(<<>>), PyList(<<PyStr("week-1")>>),
     PyList(<<PyStr("week-2"), PyStr("week-1")>>)}

ClientSummary == PyStr("Test Epic")

ClientDescription == PyStr("A description")

ClientStatuses == {200, 201, 400, 404}

ClientBodies == {KeyBody("APA-1"), KeyBody("APA-2"), EmptyBody, ErrorBody, TextBody}

ClientOutcomes ==
    {Response(st, b) : st \in ClientStatuses, b \in ClientBodies}
        \cup {Raises(e) : e \in TransportErrors}

InitClient ==
    /\ cred \in [email : Emails, api_token : ApiTokens]
    /\ jira = JiraTicketGenerator(HardJiraUrl, cred.email, cred.api_token, HardProjectKey)
    /\ pc = 0
    /\ epic_keys = <<>>
    /\ story_keys = <<>>
    /\ inflight = {}
    /\ call = NoCall
    /\ last = NoLast
    /\ posts = [n \in Nodes |-> 0]
    /\ answered = [n \in Nodes |-> 0]
    /\ result = Running

ClientCreateEpic ==
    /\ pc = 0
    /\ Begin([op |-> "create_epic", node |-> 0,
              epic_name |-> ClientSummary,
              epic_summary |-> ClientSummary,
              epic_description |-> ClientDescription],
             create_epic_request(jira, 0, ClientSummary, ClientSummary, ClientDescription))
    /\ UNCHANGED <<jira, cred, pc, epic_keys, story_keys, last, posts, answered, result>>

ClientCreateStory ==
    /\ pc = 0
    /\ \E epic_key \in ClientKeys, components \in ClientComponents, labels \in ClientLabels :
        Begin([op |-> "create_story", node |-> 0,
               epic_key |-> epic_key,
               story_summary |-> ClientSummary,
               story_description |-> ClientDescription,
               components |-> components,
               labels |-> labels],
              create_story_request(jira, 0, epic_key, ClientSummary, ClientDescription,
                                   components, labels))
    /\ UNCHANGED <<jira, cred, pc, epic_keys, story_keys, last, posts, answered, result>>

ClientCreateSubtask ==
    /\ pc = 0
    /\ \E parent_key \in ClientKeys :
        Begin([op |-> "create_subtask", node |-> 0,
               parent_key |-> parent_key,
               subtask_summary |-> ClientSummary,
               subtask_description |-> ClientDescription],
              create_subtask_request(jira, 0, parent_key, ClientSummary, ClientDescription))
    /\ UNCHANGED <<jira, cred, pc, epic_keys, story_keys, last, posts, answered, result>>

ClientCallReturns ==
    /\ pc = 0
    /\ \E outcome \in ClientOutcomes : Complete(outcome)
    /\ UNCHANGED <<jira, cred, pc, epic_keys, story_keys, posts, answered, result>>

NextClient ==
    \/ ClientCreateEpic
    \/ ClientCreateStory
    \/ ClientCreateSubtask
    \/ ClientCallReturns

SpecClient == InitClient /\ [][NextClient]_vars

(***************************************************************************)
(* Reading requests, the plan's tree and the driver's variables            *)
(***************************************************************************)
\* the fields object of a request body
Fields(r) == r.data[2]["fields"][2]

\* the JSON form of a key argument: a string, or null for None
KeyJson(v) == IF IsNone(v) THEN JNull ELSE JString(v[2])

IsChild(n) == n \in Nodes /\ Plan[n].op \in {"create_story", "create_subtask"}

\* the statement that creates the parent of statement n
ParentNode(n) == CHOOSE m \in Nodes : Plan[m].var = Plan[n].parent

RECURSIVE Ancestors(_)
Ancestors(n) ==
    IF IsChild(n) THEN {ParentNode(n)} \cup Ancestors(ParentNode(n)) ELSE {}

\* what the driver holds for the issue created by parent statement m
Stored(m) ==
    IF Plan[m].var \in DOMAIN epic_keys THEN epic_keys[Plan[m].var]
    ELSE story_keys[Plan[m].var]

\* the parent reference a story or subtask request carries
ParentRef(r) ==
    IF Plan[r.node].op = "create_story" THEN Fields(r)["customfield_10014"]
    ELSE Fields(r)["parent"][2]["key"]

\* the last operation got a response, and its status was / was not 201
GotResponse == last.op # "none" /\ last.outcome.exc = NoExc

Got201WithKey ==
    /\ GotResponse
    /\ last.outcome.status_code = 201
    /\ last.outcome.text[1] = "object"
    /\ "key" \in DOMAIN last.outcome.text[2]

GotNon201 == GotResponse /\ last.outcome.status_code # 201

(***************************************************************************)
(* C1: in a run of generate_project_tickets, no create_story or            *)
(* create_subtask request is sent whose parent's create failed and yielded *)
(* no key: every child request in flight has a parent that returned a key, *)
(* and carries a parent reference that is not null.                        *)
(* The code does not have this property: it passes the None on.            *)
(***************************************************************************)
C1_NoChildOfFailedParent ==
    \A r \in inflight :
        IsChild(r.node) =>
            /\ ~IsNone(Stored(ParentNode(r.node)))
            /\ ParentRef(r) # JNull

(***************************************************************************)
(* C2: when the tracker answers 201 with a JSON body containing "key",     *)
(* the operation (create_epic, create_story or create_subtask) returns     *)
(* exactly that key, a non-empty string, and raises nothing.               *)
(***************************************************************************)
C2_ReturnsTheKey ==
    Got201WithKey =>
        /\ last.raised = NoExc
        /\ IsStr(last.ret)
        /\ last.ret[2] = last.outcome.text[2]["key"][2]
        /\ last.ret[2] # ""

C2_Witness ==
    /\ last.op = "create_subtask"
    /\ Got201WithKey
    /\ last.outcome.text = KeyBody("APA-2")
    /\ last.ret = PyStr("APA-2")

(***************************************************************************)
(* C3: for every response status other than 201 the operation returns      *)
(* None, never a key string, and the failure details reach the caller's    *)
(* side: the response body text is in the line the operation prints.       *)
(***************************************************************************)
C3_Non201ReturnsNone ==
    GotNon201 =>
        /\ last.raised = NoExc
        /\ last.ret = None
        /\ \E i \in DOMAIN last.printed :
               last.printed[i] = <<"response.text", last.outcome.text>>

C3_Witness ==
    /\ last.op = "create_story"
    /\ GotNon201
    /\ last.outcome.status_code = 200
    /\ last.outcome.text = KeyBody("APA-1")
    /\ last.ret = None

(***************************************************************************)
(* C4: every failed create is reported with both the HTTP status code and  *)
(* the response body.                                                      *)
(* The code does not have this property: the line it prints holds the      *)
(* response text alone.                                                    *)
(***************************************************************************)
C4_ReportHasStatusAndBody ==
    GotNon201 =>
        /\ \E i \in DOMAIN last.printed : last.printed[i][1] = "response.status_code"
        /\ \E i \in DOMAIN last.printed : last.printed[i][1] = "response.text"

(***************************************************************************)
(* C5: in a run of generate_project_tickets at most one request is         *)
(* outstanding at any time; a story or subtask request is sent only after  *)
(* its parent's request was sent and answered; and the parent reference it *)
(* carries is the value the parent's create call returned: the key the     *)
(* tracker issued in answer to the parent's request, or null when that     *)
(* call returned None.                                                     *)
(***************************************************************************)
C5_ChildAfterParent ==
    /\ Cardinality(inflight) <= 1
    /\ \A r \in inflight :
        IsChild(r.node) =>
            LET p == ParentNode(r.node)
            IN  /\ p < r.node
                /\ posts[p] = 1
                /\ answered[p] = 1
                /\ \A q \in inflight : q.node # p
                /\ Stored(p) \in {None, PyStr(TrackerKey(p))}
                /\ ParentRef(r) = KeyJson(Stored(p))

C5_Witness ==
    \E r \in inflight :
        /\ Plan[r.node].op = "create_subtask"
        /\ Plan[r.node].parent = "story1_2"
        /\ ParentRef(r) = JString(TrackerKey(ParentNode(r.node)))
        /\ IsNone(epic_keys["epic1"])

(***************************************************************************)
(* C6: the body of a create_story request has, in its fields object, the   *)
(* epic-link field (customfield_10014) set to exactly the epic_key passed  *)
(* in; the body of a create_subtask request has a parent object whose key  *)
(* is exactly the parent_key passed in.                                    *)
(***************************************************************************)
C6_ParentReferenceSent ==
    /\ call.op = "create_story" =>
        /\ inflight # {}
        /\ \A r \in inflight :
            /\ "customfield_10014" \in DOMAIN Fields(r)
            /\ Fields(r)["customfield_10014"] = KeyJson(call.epic_key)
    /\ call.op = "create_subtask" =>
        /\ inflight # {}
        /\ \A r \in inflight :
            /\ "parent" \in DOMAIN Fields(r)
            /\ Fields(r)["parent"] = <<"object", [key |-> KeyJson(call.parent_key)]>>

C6_Witness ==
    /\ call.op = "create_story"
    /\ call.epic_key = PyStr("APA-2")
    /\ \E r \in inflight : Fields(r)["customfield_10014"] = JString("APA-2")

(***************************************************************************)
(* C7: on any failure of the taxonomy (transport failure, 401/403, 400,    *)
(* 404, a 201 whose body has no "key") the create operation yields no      *)
(* identifier, and the driver creates no descendant of the failed node: no *)
(* request is sent for a statement one of whose ancestors returned no key. *)
(* The code does not have this property: after an error status the driver  *)
(* goes on with the children.                                              *)
(***************************************************************************)
TaxonomyFailure ==
    /\ last.op # "none"
    /\ \/ last.outcome.exc \in TransportErrors
       \/ last.outcome.exc = NoExc /\ last.outcome.status_code \in ErrorStatuses
       \/ last.outcome.exc = NoExc /\ last.outcome.status_code = 201
            /\ last.outcome.text = EmptyBody

C7_FailedSubtreeNotBuilt ==
    /\ TaxonomyFailure => ~IsStr(last.ret)
    /\ \A r \in inflight : \A a \in Ancestors(r.node) : IsStr(Stored(a))

(***************************************************************************)
(* C8: each plan statement causes at most one POST to the issue-creation   *)
(* endpoint and nothing but such POSTs is sent; no statement is sent again *)
(* after a failure; a run that returns has sent every statement exactly    *)
(* once; a run ended by an exception has sent the statements up to the one *)
(* that raised exactly once and the later ones never.                      *)
(***************************************************************************)
C8_EachNodePostedOnce ==
    /\ \A n \in Nodes : posts[n] <= 1 /\ answered[n] <= posts[n]
    /\ \A r \in inflight : r.method = "POST" /\ r.url = issue_url(jira)
    /\ pc \in Nodes \cup {ReturnStmt} => \A n \in Nodes : n < pc => posts[n] = 1
    /\ result = <<"returned", SuccessMessage>> => \A n \in Nodes : posts[n] = 1
    /\ result[1] = "raised" =>
        \E k \in Nodes : \A n \in Nodes : posts[n] = IF n <= k THEN 1 ELSE 0

C8_Witness ==
    /\ result = <<"returned", SuccessMessage>>
    /\ IsNone(epic_keys["epic1"])
    /\ IsNone(story_keys["story1_1"])
    /\ IsStr(epic_keys["epic2"])
    /\ \A n \in Nodes : posts[n] = 1

\* C8 as first stated: whenever the run has ended, every statement of the plan
\* (7 epics, 5 stories, 13 subtasks) was sent exactly once
C8_EveryNodePostedWhenEnded ==
    pc = Terminated => \A n \in Nodes : posts[n] = 1

(***************************************************************************)
(* C9: the authorization header value is "Basic " followed by the base64   *)
(* encoding of email + ":" + api_token (decoding it gives back             *)
(* email:api_token), it never changes after construction, and every        *)
(* request carries it, whatever ran before.                                *)
(***************************************************************************)
AuthValue == jira.auth_header["Authorization"]

AuthB64 == SubSeq(AuthValue, Len(BasicPrefix) + 1, Len(AuthValue))

B64Alphabet == (65..90) \cup (97..122) \cup (48..57) \cup {43, 47}

AuthHeaderRight ==
    /\ DOMAIN jira.auth_header = {"Authorization"}
    /\ SubSeq(AuthValue, 1, Len(BasicPrefix)) = BasicPrefix
    /\ Len(AuthB64) % 4 = 0
    /\ \A i \in DOMAIN AuthB64 :
        \/ AuthB64[i] \in B64Alphabet
        \/ AuthB64[i] = B64Pad /\ i > Len(AuthB64) - 2
             /\ \A j \in i..Len(AuthB64) : AuthB64[j] = B64Pad
    /\ utf8_decode(b64decode(utf8_encode(AuthB64))) = cred.email \o Colon \o cred.api_token
    /\ \A r \in inflight : r.headers["Authorization"] = AuthValue

C9_AuthHeader ==
    /\ []AuthHeaderRight
    /\ [][jira'.auth_header = jira.auth_header /\ cred' = cred]_vars

C9_Witness ==
    /\ cred.email = <<233>>
    /\ cred.api_token = <<8364>>
    /\ last.op = "create_epic"
    /\ call.op = "create_subtask"
    /\ \E r \in inflight : r.headers["Authorization"] = AuthValue

(***************************************************************************)
(* C10: a create_story request carries "components" as the list of         *)
(* {"name": c} objects, in input order, exactly when the components passed *)
(* are a non-empty list, and "labels" as the list passed exactly when the  *)
(* labels passed are a non-empty list; create_epic and create_subtask      *)
(* requests carry neither.                                                 *)
(***************************************************************************)
NonEmptyList(v) == v[1] = "list" /\ Len(v[2]) > 0

C10_ComponentsAndLabels ==
    \A r \in inflight :
        /\ call.op = "create_story" =>
            /\ IF NonEmptyList(call.components)
               THEN /\ "components" \in DOMAIN Fields(r)
                    /\ Fields(r)["components"] =
                          <<"array", [i \in 1..Len(call.components[2]) |->
                              <<"object", [name |-> JString(call.components[2][i][2])]>>]>>
               ELSE "components" \notin DOMAIN Fields(r)
            /\ IF NonEmptyList(call.labels)
               THEN /\ "labels" \in DOMAIN Fields(r)
                    /\ Fields(r)["labels"] =
                          <<"array", [i \in 1..Len(call.labels[2]) |->
                              JString(call.labels[2][i][2])]>>
               ELSE "labels" \notin DOMAIN Fields(r)
        /\ call.op \in {"create_epic", "create_subtask"} =>
            /\ "components" \notin DOMAIN Fields(r)
            /\ "labels" \notin DOMAIN Fields(r)

C10_Witness ==
    /\ call.op = "create_story"
    /\ call.epic_key = PyStr("APA-1")
    /\ call.components = PyList(<<PyStr("Database")>>)
    /\ call.labels = PyList(<<PyStr("week-1")>>)
    /\ \E r \in inflight :
        /\ Fields(r)["components"] = <<"array", <<<<"object", [name |-> JString("Database")]>>>>>>
        /\ Fields(r)["labels"] = <<"array", <<JString("week-1")>>>>

(***************************************************************************)
(* The driver never waits: each statement runs when the one before it has  *)
(* returned, and requests.post returns once the tracker has answered.      *)
(***************************************************************************)
SpecLive == Init /\ [][Next]_vars /\ WF_vars(Next)

(***************************************************************************)
(* C11: when every HTTP call of a run gets a response whose status is not  *)
(* 201, or a 201 response carrying a key, generate_project_tickets issues  *)
(* its create calls in the fixed program order, whichever of them failed,  *)
(* terminates, and returns "Successfully generated project tickets!",      *)
(* also when every create failed.                                          *)
(***************************************************************************)
\* the last HTTP call, if any, got a response that makes the operation return
AnsweredWithoutRaise ==
    last.op # "none" =>
        /\ last.outcome.exc = NoExc
        /\ \/ last.outcome.status_code # 201
           \/ /\ last.outcome.text[1] = "object"
              /\ "key" \in DOMAIN last.outcome.text[2]

Returned_Success == result = <<"returned", SuccessMessage>>

\* the statements sent so far are the first ones of the plan, each with the
\* operation the plan names, whatever the earlier calls returned
FixedOrder ==
    /\ call.op # "none" => call.node = pc /\ call.op = Plan[pc].op
    /\ pc \in Nodes \cup {ReturnStmt} =>
        \A n \in Nodes :
            posts[n] = IF n < pc \/ (n = pc /\ call.op # "none") THEN 1 ELSE 0
    /\ pc = Terminated /\ AnsweredWithoutRaise =>
        /\ Returned_Success
        /\ \A n \in Nodes : posts[n] = 1 /\ answered[n] = 1

C11_ReturnsSuccessWhateverFailed ==
    /\ []FixedOrder
    /\ ([]AnsweredWithoutRaise) => <>Returned_Success

C11_Witness ==
    /\ Returned_Success
    /\ \A m \in Nodes : Plan[m].var # "" => IsNone(Stored(m))
    /\ last.op = "create_epic"
    /\ last.outcome.status_code \in ErrorStatuses
    /\ IsNone(last.ret)

====
